---- MODULE Spec2Model ----
(***************************************************************************)
(* DeltaOptima / pipeTimer: a model of SparkEventLogParser                  *)
(* (pipeTimer_src/parsers/spark_event_log_parser.py) and of AnalysisEngine  *)
(* (pipeTimer_src/analysis/engine.py).                                      *)
(*                                                                         *)
(* One aggregation pass reads an event log line by line.  Each line is     *)
(* decoded with json.loads and handed to _parse_event, which updates       *)
(* parsed_data (application_info, jobs, stages, summary_metrics).  An      *)
(* exception raised while a line is handled is caught by the loop body,    *)
(* logged, and the pass goes on with the next line; what the handler had   *)
(* already written when it raised stays written.                           *)
(*                                                                         *)
(* Python dictionaries are functions whose DOMAIN is the set of keys       *)
(* present.  Python's None is the value None below (for fields that hold   *)
(* numbers) and NoneStr (for fields that hold strings).                    *)
(*                                                                         *)
(* Specifications:                                                         *)
(*   Spec        one pass over a log that is read to its end               *)
(*   CallSpec    parse_log_file called up to MaxPasses times on one        *)
(*               aggregator, with sources that fail to open or to read,    *)
(*               and get_summary called in between                         *)
(*   FormatSpec  AnalysisEngine._format_duration on one input              *)
(*   HistorySpec AnalysisEngine.analyze_run_history on one run list        *)
(*   ReportSpec  AnalysisEngine.process_run_details_for_report, one run   *)
(***************************************************************************)
EXTENDS Integers, Sequences, FiniteSets, TLC

VARIABLES parsed_data,   \* self.parsed_data of the aggregator
          line_number,   \* lines of the source consumed so far in this pass
          line,          \* the line most recently read by the loop
          log_records,   \* number of warning / error records written to the logger
          pc,            \* where parse_log_file is: "reading", "done", "failed"
          result,        \* what the latest parse_log_file call returned
          summary,       \* what the latest get_summary call returned
          engine_call,   \* the AnalysisEngine call being made: method and argument
          engine_result, \* what that call returned
          history        \* history of the aggregator, kept for the properties only:
                         \*   clean_data: parsed_data of a twin pass that is fed
                         \*     the same lines with the undecodable ones removed
                         \*   stage_submitted: StageSubmitted events read
                         \*   declared_tasks: sum of their declared task counts
                         \*   passes: parse_log_file calls made
                         \*   pass_data: parsed_data of a fresh aggregator that
                         \*     is fed the lines of the current pass alone
                         \*   summaries: get_summary calls since the last line
                         \*     was read or pass was started

parser_vars == <<parsed_data, line_number, line, log_records, pc, result, summary, history>>
engine_vars == <<engine_call, engine_result>>
vars == <<parsed_data, line_number, line, log_records, pc, result, summary,
          engine_call, engine_result, history>>

-----------------------------------------------------------------------------
(* Bounds and input domains *)

\* longest log read in one pass
MaxLines == 4

\* Python None in a numeric field (a value no timestamp or count takes)
None == -1000000
\* Python None in a string field
NoneStr == "None"

EmptyDict == [k \in {} |-> None]

\* the job and the stage the log starts, and a job and a stage no event starts
StartedJobId == 1
UnknownJobId == 2
StartedStageId == 9
UnknownStageId == 42
\* epoch-millisecond timestamps carried by Start / Submitted events
SubmissionTimes == {0, 1000}
\* epoch-millisecond timestamps carried by End / Completed events
CompletionTimes == {0, 500, 1500}
\* result tags carried by JobEnd events
ResultTags == {"JobSucceeded", "JobFailed"}

-----------------------------------------------------------------------------
(* Dictionary helpers *)

\* dict.get(k, default)
Get(d, k, default) == IF k \in DOMAIN d THEN d[k] ELSE default

\* d[k] = v
Put(d, k, v) == (k :> v) @@ d

\* truth value of a number-or-None: None and 0 are falsy
Truthy(x) == x # None /\ x # 0

\* the outcome of one _parse_event call: the data as the call left it and
\* whether the call ended by raising
Return(pd) == [data |-> pd, raised |-> FALSE]
Raise(pd) == [data |-> pd, raised |-> TRUE]

\* SparkEventLogParser.__init__: the fresh parsed_data
InitialData ==
    [application_info |-> EmptyDict,
     jobs |-> EmptyDict,
     stages |-> EmptyDict,
     executors |-> EmptyDict,
     summary_metrics |->
        [total_jobs |-> 0,
         successful_jobs |-> 0,
         failed_jobs |-> 0,
         total_stages |-> 0,
         total_tasks |-> 0,
         aggregate_shuffle_read_bytes |-> 0,
         aggregate_shuffle_write_bytes |-> 0,
         aggregate_input_bytes |-> 0,
         aggregate_output_bytes |-> 0]]

-----------------------------------------------------------------------------
(* _parse_event, one operator per branch *)

\* event_type == "SparkListenerApplicationStart"
ApplicationStart(pd, ev) ==
    Return([pd EXCEPT !.application_info =
        [app_name |-> Get(ev, "App Name", NoneStr),
         app_id |-> Get(ev, "App ID", NoneStr),
         start_time |-> Get(ev, "Timestamp", None),
         spark_user |-> Get(ev, "Spark User", NoneStr)]])

\* event_type == "SparkListenerApplicationEnd"
ApplicationEnd(pd, ev) ==
    LET ts == Get(ev, "Timestamp", None)
        info == Put(pd.application_info, "end_time", ts)
        pd1 == [pd EXCEPT !.application_info = info]
    IN  IF Truthy(Get(info, "start_time", None))
        THEN IF ts = None
             THEN Raise(pd1)      \* None - int: TypeError
             ELSE Return([pd1 EXCEPT !.application_info =
                             Put(info, "duration_ms", ts - info["start_time"])])
        ELSE Return(pd1)

\* event_type == "SparkListenerJobStart"
JobStart(pd, ev) ==
    LET job_id == Get(ev, "Job ID", None)
        rec == [job_id |-> job_id,
                submission_time |-> Get(ev, "Submission Time", None),
                stage_ids |-> Get(ev, "Stage IDs", <<>>),
                status |-> "RUNNING"]
    IN  Return([pd EXCEPT !.jobs = Put(pd.jobs, job_id, rec),
                          !.summary_metrics.total_jobs = @ + 1])

\* ClassifyJobEnd with a slip: only a "JobFailed" status counts as a failure
ClassifyJobEnd_OnlyJobFailedFails(pd, status) ==
    IF status # "JobFailed"
    THEN [pd EXCEPT !.summary_metrics.successful_jobs = @ + 1]
    ELSE [pd EXCEPT !.summary_metrics.failed_jobs = @ + 1]

\* the branch of JobEnd that classifies the job by its status
ClassifyJobEnd(pd, status) ==
    IF status = "JobSucceeded"
    THEN [pd EXCEPT !.summary_metrics.successful_jobs = @ + 1]
    ELSE [pd EXCEPT !.summary_metrics.failed_jobs = @ + 1]

\* JobDuration with a slip: a negative difference is clamped to 0
JobDuration_Clamped(completion_time, submission_time) ==
    IF completion_time - submission_time < 0
    THEN 0
    ELSE completion_time - submission_time

\* duration = event_json.get("Completion Time") - submission_time
JobDuration(completion_time, submission_time) == completion_time - submission_time

\* body of "if job_id in self.parsed_data["jobs"]:"
JobEndKnown(pd, ev, job_id) ==
    LET job_result == Get(ev, "Job Result", EmptyDict)
        ct == Get(ev, "Completion Time", None)
        rec1 == Put(Put(Put(pd.jobs[job_id],
                   "completion_time", ct),
                   "result", Get(job_result, "Result", NoneStr)),
                   "status", Get(job_result, "Result", "UNKNOWN"))
        pd1 == [pd EXCEPT !.jobs = Put(pd.jobs, job_id, rec1)]
    IN  IF Truthy(Get(rec1, "submission_time", None))
        THEN IF ct = None
             THEN Raise(pd1)      \* None - int: TypeError
             ELSE LET rec2 == Put(rec1, "duration_ms",
                                  JobDuration(ct, rec1["submission_time"]))
                      pd2 == [pd1 EXCEPT !.jobs = Put(pd1.jobs, job_id, rec2)]
                  IN  Return(ClassifyJobEnd(pd2, rec2["status"]))
        ELSE Return(ClassifyJobEnd(pd1, rec1["status"]))

\* JobEnd with a slip: the end of a job that has no record is still counted
JobEnd_CountsUnknownJob(pd, ev) ==
    LET job_id == Get(ev, "Job ID", None)
    IN  IF job_id \in DOMAIN pd.jobs
        THEN JobEndKnown(pd, ev, job_id)
        ELSE Return(ClassifyJobEnd(pd,
                 Get(Get(ev, "Job Result", EmptyDict), "Result", "UNKNOWN")))

\* event_type == "SparkListenerJobEnd"
JobEnd(pd, ev) ==
    LET job_id == Get(ev, "Job ID", None)
    IN  IF job_id \in DOMAIN pd.jobs
        THEN JobEndKnown(pd, ev, job_id)
        ELSE Return(pd)

\* StageSubmitted with a slip: total_stages counts distinct stage ids only
StageSubmitted_CountsNewIdsOnly(pd, ev) ==
    LET stage_info == Get(ev, "Stage Info", EmptyDict)
        stage_id == Get(stage_info, "Stage ID", None)
        rec == [stage_id |-> stage_id,
                name |-> Get(stage_info, "Name", NoneStr),
                submission_time |-> Get(stage_info, "Submission Time", None),
                num_tasks |-> Get(stage_info, "Number of Tasks", None),
                details |-> Get(stage_info, "Details", NoneStr)]
        pd1 == [pd EXCEPT !.stages = Put(pd.stages, stage_id, rec),
                          !.summary_metrics.total_stages =
                              IF stage_id \in DOMAIN pd.stages THEN @ ELSE @ + 1]
        n == Get(stage_info, "Number of Tasks", 0)
    IN  IF n = None
        THEN Raise(pd1)
        ELSE Return([pd1 EXCEPT !.summary_metrics.total_tasks = @ + n])

\* StageSubmitted with a slip: total_tasks is assigned, not added to
StageSubmitted_AssignsTasks(pd, ev) ==
    LET stage_info == Get(ev, "Stage Info", EmptyDict)
        stage_id == Get(stage_info, "Stage ID", None)
        rec == [stage_id |-> stage_id,
                name |-> Get(stage_info, "Name", NoneStr),
                submission_time |-> Get(stage_info, "Submission Time", None),
                num_tasks |-> Get(stage_info, "Number of Tasks", None),
                details |-> Get(stage_info, "Details", NoneStr)]
        pd1 == [pd EXCEPT !.stages = Put(pd.stages, stage_id, rec),
                          !.summary_metrics.total_stages = @ + 1]
        n == Get(stage_info, "Number of Tasks", 0)
    IN  IF n = None
        THEN Raise(pd1)
        ELSE Return([pd1 EXCEPT !.summary_metrics.total_tasks = n])

\* event_type == "SparkListenerStageSubmitted"
StageSubmitted(pd, ev) ==
    LET stage_info == Get(ev, "Stage Info", EmptyDict)
        stage_id == Get(stage_info, "Stage ID", None)
        rec == [stage_id |-> stage_id,
                name |-> Get(stage_info, "Name", NoneStr),
                submission_time |-> Get(stage_info, "Submission Time", None),
                num_tasks |-> Get(stage_info, "Number of Tasks", None),
                details |-> Get(stage_info, "Details", NoneStr)]
        pd1 == [pd EXCEPT !.stages = Put(pd.stages, stage_id, rec),
                          !.summary_metrics.total_stages = @ + 1]
        n == Get(stage_info, "Number of Tasks", 0)
    IN  IF n = None
        THEN Raise(pd1)      \* int += None: TypeError
        ELSE Return([pd1 EXCEPT !.summary_metrics.total_tasks = @ + n])

\* the four aggregate_*_bytes counters grow by the given amounts
AddBytes(pd, shuffle_read, shuffle_write, input, output) ==
    [pd EXCEPT !.summary_metrics.aggregate_shuffle_read_bytes = @ + shuffle_read,
               !.summary_metrics.aggregate_shuffle_write_bytes = @ + shuffle_write,
               !.summary_metrics.aggregate_input_bytes = @ + input,
               !.summary_metrics.aggregate_output_bytes = @ + output]

\* "if stage_task_metrics:" branch: the direct "Task Metrics" block
MergeTaskMetrics(pd, tm) ==
    LET read == Get(tm, "Shuffle Read Metrics", EmptyDict)
        write == Get(tm, "Shuffle Write Metrics", EmptyDict)
        input == Get(tm, "Input Metrics", EmptyDict)
        output == Get(tm, "Output Metrics", EmptyDict)
    IN  AddBytes(pd,
                 Get(read, "Remote Bytes Read", 0) + Get(read, "Local Bytes Read", 0),
                 Get(write, "Shuffle Bytes Written", 0),
                 Get(input, "Bytes Read", 0),
                 Get(output, "Bytes Written", 0))

\* the JSON value true as json.loads yields it: Python's True, which is an
\* int (isinstance(True, (int, float)) holds) and counts as 1 in a sum
JsonTrue == -999999

\* body of "for acc in task_metrics:" for one accumulator; a value that
\* fails isinstance(value, (int, float)) (None here, for null and strings)
\* and a name that is not recognized add nothing
MergeAccumulable(pd, acc) ==
    LET name == Get(acc, "Name", NoneStr)
        json_value == Get(acc, "Value", None)
        value == IF json_value = JsonTrue THEN 1 ELSE json_value
    IN  IF json_value # None
        THEN CASE name \in {"internal.metrics.shuffle.read.remoteBytesRead",
                            "internal.metrics.shuffle.read.localBytesRead"}
                    -> AddBytes(pd, value, 0, 0, 0)
               [] name = "internal.metrics.shuffle.write.bytesWritten"
                    -> AddBytes(pd, 0, value, 0, 0)
               [] name = "internal.metrics.input.bytesRead"
                    -> AddBytes(pd, 0, 0, value, 0)
               [] name = "internal.metrics.output.bytesWritten"
                    -> AddBytes(pd, 0, 0, 0, value)
               [] OTHER -> pd
        ELSE pd

\* "else:" branch: the loop over the "Accumulables" list
RECURSIVE MergeAccumulables(_, _)
MergeAccumulables(pd, accs) ==
    IF accs = <<>> THEN pd
    ELSE MergeAccumulables(MergeAccumulable(pd, Head(accs)), Tail(accs))

\* duration = stage_info.get("Completion Time") - submission_time
StageDuration(completion_time, submission_time) == completion_time - submission_time

\* body of "if stage_id in self.parsed_data["stages"]:"
StageCompletedKnown(pd, stage_info, stage_id) ==
    LET ct == Get(stage_info, "Completion Time", None)
        reason == Get(stage_info, "Failure Reason", NoneStr)
        rec1 == Put(Put(pd.stages[stage_id],
                   "completion_time", ct),
                   "status", Get(stage_info, "Stage Status", "UNKNOWN"))
        rec2 == IF reason # NoneStr /\ reason # ""
                THEN Put(rec1, "failure_reason", reason)
                ELSE rec1
        rec3 == IF Truthy(Get(rec2, "submission_time", None)) /\ Truthy(ct)
                THEN Put(rec2, "duration_ms",
                         StageDuration(ct, rec2["submission_time"]))
                ELSE rec2
        pd3 == [pd EXCEPT !.stages = Put(pd.stages, stage_id, rec3)]
        task_metrics == Get(stage_info, "Accumulables", <<>>)
        stage_task_metrics == Get(stage_info, "Task Metrics", EmptyDict)
    IN  IF stage_task_metrics # EmptyDict
        THEN Return(MergeTaskMetrics(pd3, stage_task_metrics))
        ELSE Return(MergeAccumulables(pd3, task_metrics))

\* StageCompleted with a slip: the metrics block is merged before the stage
\* is looked up
StageCompleted_MergesUnknownStage(pd, ev) ==
    LET stage_info == Get(ev, "Stage Info", EmptyDict)
        stage_id == Get(stage_info, "Stage ID", None)
    IN  IF stage_id \in DOMAIN pd.stages
        THEN StageCompletedKnown(pd, stage_info, stage_id)
        ELSE Return(MergeTaskMetrics(pd, Get(stage_info, "Task Metrics", EmptyDict)))

\* event_type == "SparkListenerStageCompleted"
StageCompleted(pd, ev) ==
    LET stage_info == Get(ev, "Stage Info", EmptyDict)
        stage_id == Get(stage_info, "Stage ID", None)
    IN  IF stage_id \in DOMAIN pd.stages
        THEN StageCompletedKnown(pd, stage_info, stage_id)
        ELSE Return(pd)

\* _parse_event with a slip: a final "else: raise" for an event type that
\* has no branch
_parse_event_UnknownKindRaises(pd, event_json) ==
    LET event_type == Get(event_json, "Event", NoneStr)
    IN  CASE event_type = "SparkListenerApplicationStart" -> ApplicationStart(pd, event_json)
          [] event_type = "SparkListenerApplicationEnd" -> ApplicationEnd(pd, event_json)
          [] event_type = "SparkListenerJobStart" -> JobStart(pd, event_json)
          [] event_type = "SparkListenerJobEnd" -> JobEnd(pd, event_json)
          [] event_type = "SparkListenerStageSubmitted" -> StageSubmitted(pd, event_json)
          [] event_type = "SparkListenerStageCompleted" -> StageCompleted(pd, event_json)
          [] OTHER -> Raise(pd)

\* SparkEventLogParser._parse_event: dispatch on event_json.get("Event")
_parse_event(pd, event_json) ==
    LET event_type == Get(event_json, "Event", NoneStr)
    IN  CASE event_type = "SparkListenerApplicationStart" -> ApplicationStart(pd, event_json)
          [] event_type = "SparkListenerApplicationEnd" -> ApplicationEnd(pd, event_json)
          [] event_type = "SparkListenerJobStart" -> JobStart(pd, event_json)
          [] event_type = "SparkListenerJobEnd" -> JobEnd(pd, event_json)
          [] event_type = "SparkListenerStageSubmitted" -> StageSubmitted(pd, event_json)
          [] event_type = "SparkListenerStageCompleted" -> StageCompleted(pd, event_json)
          [] OTHER -> Return(pd)

-----------------------------------------------------------------------------
(* Lines of the log *)

\* a line that json.loads rejects
InvalidJsonLine == [value |-> EmptyDict, json |-> "invalid"]
\* a line that decodes to a JSON value that is not an object ("not json")
NonObjectLine == [value |-> EmptyDict, json |-> "string"]
\* a line that decodes to the object o
ObjectLine(o) == [value |-> o, json |-> "object"]

Event(kind, fields) == ("Event" :> kind) @@ fields

\* a field that is either missing or carries one of the values
Optional(k, values) == {EmptyDict} \cup {k :> v : v \in values}

ApplicationStartEvents ==
    {Event("SparkListenerApplicationStart",
           ("App Name" :> "etl") @@ ("App ID" :> "app-1") @@ ("Spark User" :> "root") @@ t) :
        t \in Optional("Timestamp", SubmissionTimes)}

ApplicationEndEvents ==
    {Event("SparkListenerApplicationEnd", t) : t \in Optional("Timestamp", CompletionTimes)}

JobStartEvents ==
    {Event("SparkListenerJobStart",
           ("Job ID" :> StartedJobId) @@ ("Stage IDs" :> <<StartedStageId>>) @@ s) :
        s \in Optional("Submission Time", SubmissionTimes)}

JobEndEvent(j, c, r) == Event("SparkListenerJobEnd", ("Job ID" :> j) @@ c @@ r)

\* "Job Result" missing, present without a "Result", or present with a tag
JobResults ==
    {EmptyDict, "Job Result" :> EmptyDict}
        \cup {"Job Result" :> ("Result" :> r) : r \in ResultTags}

\* every completion time with a succeeded result, every result with one
\* completion time, and an end of the job that never started
JobEndEvents ==
    {JobEndEvent(StartedJobId, c, "Job Result" :> ("Result" :> "JobSucceeded")) :
        c \in Optional("Completion Time", CompletionTimes)}
    \cup {JobEndEvent(StartedJobId, "Completion Time" :> 1500, r) : r \in JobResults}
    \cup {JobEndEvent(UnknownJobId, "Completion Time" :> 1500,
                      "Job Result" :> ("Result" :> "JobSucceeded"))}

StageSubmittedEvent(s, t, n) ==
    Event("SparkListenerStageSubmitted",
          "Stage Info" :> (("Stage ID" :> s) @@ ("Name" :> "collect") @@ ("Details" :> "") @@ t @@ n))

\* "Number of Tasks" missing, null, or a count
NumberOfTasks ==
    {EmptyDict, "Number of Tasks" :> None, "Number of Tasks" :> 4, "Number of Tasks" :> -1}

\* every submission time with 4 tasks, every task count with one submission time
StageSubmittedEvents ==
    {StageSubmittedEvent(StartedStageId, t, "Number of Tasks" :> 4) :
        t \in Optional("Submission Time", SubmissionTimes)}
    \cup {StageSubmittedEvent(StartedStageId, "Submission Time" :> 1000, n) :
        n \in NumberOfTasks}

\* a direct metrics block
TaskMetricsBlock ==
    ("Shuffle Read Metrics" :> (("Remote Bytes Read" :> 10) @@ ("Local Bytes Read" :> 5)))
        @@ ("Shuffle Write Metrics" :> ("Shuffle Bytes Written" :> 7))
        @@ ("Input Metrics" :> ("Bytes Read" :> 3))
        @@ ("Output Metrics" :> ("Bytes Written" :> 2))

Accumulable(name, value) == ("Name" :> name) @@ ("Value" :> value)

\* an accumulator list: recognized names, one unrecognized name, one value
\* that is not a number
AccumulableList ==
    <<Accumulable("internal.metrics.shuffle.read.remoteBytesRead", 10),
      Accumulable("internal.metrics.shuffle.read.localBytesRead", 5),
      Accumulable("internal.metrics.shuffle.write.bytesWritten", 7),
      Accumulable("internal.metrics.input.bytesRead", 3),
      Accumulable("internal.metrics.output.bytesWritten", 2),
      Accumulable("internal.metrics.resultSize", 100),
      Accumulable("internal.metrics.input.bytesRead", None)>>

\* an accumulator list with a negative value
NegativeAccumulableList ==
    <<Accumulable("internal.metrics.input.bytesRead", -3)>>

\* an accumulator list with a value that is a JSON boolean
BooleanAccumulableList ==
    <<Accumulable("internal.metrics.input.bytesRead", JsonTrue)>>

\* the metrics a StageCompleted carries: none, a direct block, a direct block
\* next to accumulators, or accumulators alone
StageMetrics ==
    {EmptyDict,
     "Task Metrics" :> TaskMetricsBlock,
     ("Task Metrics" :> TaskMetricsBlock) @@ ("Accumulables" :> AccumulableList),
     "Accumulables" :> AccumulableList,
     "Accumulables" :> NegativeAccumulableList,
     "Accumulables" :> BooleanAccumulableList}

StageCompletedEvent(s, c, m, o) ==
    Event("SparkListenerStageCompleted", "Stage Info" :> (("Stage ID" :> s) @@ c @@ m @@ o))

\* every completion time without metrics, every kind of metrics with one
\* completion time, a failed stage, and a completion of the stage that was
\* never submitted
StageCompletedEvents ==
    {StageCompletedEvent(StartedStageId, c, EmptyDict, EmptyDict) :
        c \in Optional("Completion Time", CompletionTimes)}
    \cup {StageCompletedEvent(StartedStageId, "Completion Time" :> 1500, m, EmptyDict) :
        m \in StageMetrics}
    \cup {StageCompletedEvent(StartedStageId, "Completion Time" :> 1500, EmptyDict,
              ("Stage Status" :> "failed") @@ ("Failure Reason" :> "Job aborted"))}
    \cup {StageCompletedEvent(UnknownStageId, "Completion Time" :> 1500,
              "Task Metrics" :> TaskMetricsBlock, EmptyDict)}

\* objects _parse_event has no branch for
OtherEvents ==
    {Event("SparkListenerTaskEnd", "Stage ID" :> StartedStageId), "Timestamp" :> 1000}

-----------------------------------------------------------------------------
(* parse_log_file *)

\* ProcessLine with a slip: only json.JSONDecodeError is caught, so the
\* AttributeError of a line that is not an object leaves the loop
ProcessLine_OnlyDecodeErrorCaught(pd, l) ==
    IF l.json = "invalid"
    THEN [data |-> pd, warning |-> 1, error |-> 0, abort |-> FALSE]
    ELSE IF l.json # "object"
    THEN [data |-> pd, warning |-> 0, error |-> 0, abort |-> TRUE]
    ELSE LET r == _parse_event(pd, l.value)
         IN  [data |-> r.data, warning |-> 0,
              error |-> IF r.raised THEN 1 ELSE 0, abort |-> r.raised]

\* the loop body for one line: json.loads, _parse_event, and the two
\* except clauses.  Yields the data, the log record written, if any, and
\* whether an exception left the loop (none does: "except Exception" absorbs
\* whatever the line raised)
ProcessLine(pd, l) ==
    IF l.json = "invalid"
    THEN [data |-> pd, warning |-> 1, error |-> 0, abort |-> FALSE]  \* json.JSONDecodeError
    ELSE IF l.json # "object"
    THEN [data |-> pd, warning |-> 0, error |-> 1, abort |-> FALSE]  \* no .get: AttributeError
    ELSE LET r == _parse_event(pd, l.value)
         IN  [data |-> r.data, warning |-> 0,
              error |-> IF r.raised THEN 1 ELSE 0, abort |-> FALSE]

IsEvent(l, kind) == l.json = "object" /\ Get(l.value, "Event", NoneStr) = kind

\* the task count a line declares: "Number of Tasks" of a StageSubmitted,
\* 0 when the event declares none
DeclaredTasks(l) ==
    LET n == Get(Get(l.value, "Stage Info", EmptyDict), "Number of Tasks", None)
    IN  IF IsEvent(l, "SparkListenerStageSubmitted") /\ n # None THEN n ELSE 0

\* the history after the line l
Record(h, l) ==
    [clean_data |-> IF l.json = "object"
                    THEN _parse_event(h.clean_data, l.value).data
                    ELSE h.clean_data,
     stage_submitted |-> h.stage_submitted
                         + (IF IsEvent(l, "SparkListenerStageSubmitted") THEN 1 ELSE 0),
     declared_tasks |-> h.declared_tasks + DeclaredTasks(l),
     passes |-> h.passes,
     pass_data |-> ProcessLine(h.pass_data, l).data,
     summaries |-> 0]

\* parse_log_file has not returned yet
Pending == [kind |-> "pending", data |-> EmptyDict]
\* "return None"
ReturnedNone == [kind |-> "None", data |-> EmptyDict]
\* "return self.parsed_data"
ReturnedData(pd) == [kind |-> "data", data |-> pd]

\* ReturnOnError with a slip: the data aggregated so far is handed back
ReturnOnError_Partial(pd) == ReturnedData(pd)

\* the two outer except clauses: "return None"
ReturnOnError(pd) == ReturnedNone

\* get_summary has not been called
NoSummary == EmptyDict

\* no AnalysisEngine call is being made
NoCall == [method |-> "none", arg |-> None]
NoResult == [kind |-> "pending"]

\* one iteration of "for line_number, line in enumerate(f, 1)"
ReadLine(l) ==
    /\ pc = "reading"
    /\ line_number < MaxLines
    /\ line' = l
    /\ line_number' = line_number + 1
    /\ LET r == ProcessLine(parsed_data, l)
       IN  /\ parsed_data' = r.data
           /\ log_records' = [warning |-> log_records.warning + r.warning,
                              error |-> log_records.error + r.error]
           /\ pc' = IF r.abort THEN "failed" ELSE "reading"
           /\ result' = IF r.abort THEN ReturnOnError(r.data) ELSE result
    /\ history' = Record(history, l)
    /\ UNCHANGED <<summary, engine_call, engine_result>>

ReadInvalidJson == ReadLine(InvalidJsonLine)
ReadNonObject == ReadLine(NonObjectLine)
ReadApplicationStart == \E e \in ApplicationStartEvents : ReadLine(ObjectLine(e))
ReadApplicationEnd == \E e \in ApplicationEndEvents : ReadLine(ObjectLine(e))
ReadJobStart == \E e \in JobStartEvents : ReadLine(ObjectLine(e))
ReadJobEnd == \E e \in JobEndEvents : ReadLine(ObjectLine(e))
ReadStageSubmitted == \E e \in StageSubmittedEvents : ReadLine(ObjectLine(e))
ReadStageCompleted == \E e \in StageCompletedEvents : ReadLine(ObjectLine(e))
ReadOther == \E e \in OtherEvents : ReadLine(ObjectLine(e))

\* the source is exhausted: "return self.parsed_data"
EndOfFile ==
    /\ pc = "reading"
    /\ pc' = "done"
    /\ result' = ReturnedData(parsed_data)
    /\ UNCHANGED <<parsed_data, line_number, line, log_records, summary, history>>
    /\ UNCHANGED engine_vars

Init ==
    /\ parsed_data = InitialData
    /\ line_number = 0
    /\ line = ObjectLine(EmptyDict)
    /\ log_records = [warning |-> 0, error |-> 0]
    /\ pc = "reading"
    /\ result = Pending
    /\ summary = NoSummary
    /\ engine_call = NoCall
    /\ engine_result = NoResult
    /\ history = [clean_data |-> InitialData, stage_submitted |-> 0, declared_tasks |-> 0,
                  passes |-> 1, pass_data |-> InitialData, summaries |-> 0]

Next ==
    \/ ReadInvalidJson
    \/ ReadNonObject
    \/ ReadApplicationStart
    \/ ReadApplicationEnd
    \/ ReadJobStart
    \/ ReadJobEnd
    \/ ReadStageSubmitted
    \/ ReadStageCompleted
    \/ ReadOther
    \/ EndOfFile

Spec == Init /\ [][Next]_vars

-----------------------------------------------------------------------------
(* get_summary *)

\* n / d rounded to the nearest integer, halves away from zero
RoundDiv(n, d) ==
    IF n >= 0 THEN (2 * n + d) \div (2 * d) ELSE 0 - ((2 * (0 - n) + d) \div (2 * d))

\* f"{duration / 1000:.2f} s": the number of hundredths of a second printed.
\* (The timestamps of the events are multiples of 10 ms, so no duration sits
\* halfway between two printed values.)
SecondsString(duration_ms) == [text |-> "%.2f s", hundredths |-> RoundDiv(duration_ms, 10)]
\* the "N/A" that stands for a missing duration_ms
NotAvailable == [text |-> "N/A", hundredths |-> 0]

\* one entry of job_durations
JobSummary(job_id, job_data) ==
    LET duration == Get(job_data, "duration_ms", None)
    IN  [job_id |-> job_id,
         status |-> Get(job_data, "status", "UNKNOWN"),
         duration |-> IF duration # None THEN SecondsString(duration) ELSE NotAvailable,
         stage_ids |-> Get(job_data, "stage_ids", <<>>)]

\* "for job_id, job_data in self.parsed_data["jobs"].items()", by ascending
\* job id (events start one job id only, so the list has at most one entry)
RECURSIVE JobDurations(_, _)
JobDurations(jobs, ids) ==
    IF ids = {} THEN <<>>
    ELSE LET first == CHOOSE i \in ids : \A j \in ids : i <= j
         IN  <<JobSummary(first, jobs[first])>> \o JobDurations(jobs, ids \ {first})

\* get_summary with a slip: the formatted duration is written back to the
\* job record
get_summary_WritesBack(pd) ==
    [summary |->
        [application_info |-> pd.application_info,
         job_summary |->
            [total_jobs |-> pd.summary_metrics.total_jobs,
             successful_jobs |-> pd.summary_metrics.successful_jobs,
             failed_jobs |-> pd.summary_metrics.failed_jobs,
             jobs |-> JobDurations(pd.jobs, DOMAIN pd.jobs)],
         stage_summary |->
            [total_stages |-> pd.summary_metrics.total_stages,
             total_tasks |-> pd.summary_metrics.total_tasks],
         aggregate_metrics |->
            [shuffle_read_bytes |-> pd.summary_metrics.aggregate_shuffle_read_bytes,
             shuffle_write_bytes |-> pd.summary_metrics.aggregate_shuffle_write_bytes,
             input_bytes |-> pd.summary_metrics.aggregate_input_bytes,
             output_bytes |-> pd.summary_metrics.aggregate_output_bytes]],
     data |-> [pd EXCEPT !.jobs =
                 [j \in DOMAIN pd.jobs |->
                    IF "duration_ms" \in DOMAIN pd.jobs[j]
                    THEN Put(pd.jobs[j], "duration_ms",
                             RoundDiv(pd.jobs[j].duration_ms, 10))
                    ELSE pd.jobs[j]]]]

\* SparkEventLogParser.get_summary: the summary returned and parsed_data as
\* the call leaves it (the method assigns to locals only)
get_summary(pd) ==
    [summary |->
        [application_info |-> pd.application_info,
         job_summary |->
            [total_jobs |-> pd.summary_metrics.total_jobs,
             successful_jobs |-> pd.summary_metrics.successful_jobs,
             failed_jobs |-> pd.summary_metrics.failed_jobs,
             jobs |-> JobDurations(pd.jobs, DOMAIN pd.jobs)],
         stage_summary |->
            [total_stages |-> pd.summary_metrics.total_stages,
             total_tasks |-> pd.summary_metrics.total_tasks],
         aggregate_metrics |->
            [shuffle_read_bytes |-> pd.summary_metrics.aggregate_shuffle_read_bytes,
             shuffle_write_bytes |-> pd.summary_metrics.aggregate_shuffle_write_bytes,
             input_bytes |-> pd.summary_metrics.aggregate_input_bytes,
             output_bytes |-> pd.summary_metrics.aggregate_output_bytes]],
     data |-> pd]

-----------------------------------------------------------------------------
(* The aggregator over several calls *)

\* most parse_log_file calls on one aggregator
MaxPasses == 2
\* longest source of one of these calls
MaxCallLines == 2
\* most get_summary calls in a row
MaxSummaries == 2

\* the lines these sources are made of
CallLines ==
    {InvalidJsonLine,
     ObjectLine(Event("SparkListenerApplicationStart", "Timestamp" :> 1000)),
     ObjectLine(Event("SparkListenerJobStart",
                      ("Job ID" :> StartedJobId) @@ ("Submission Time" :> 1000)
                          @@ ("Stage IDs" :> <<StartedStageId>>))),
     ObjectLine(JobEndEvent(StartedJobId, "Completion Time" :> 1500,
                            "Job Result" :> ("Result" :> "JobSucceeded"))),
     ObjectLine(StageSubmittedEvent(StartedStageId, "Submission Time" :> 1000,
                                    "Number of Tasks" :> 4))}

\* one iteration of the loop over such a source
CallReadLine ==
    \E l \in CallLines :
        /\ line_number < MaxCallLines
        /\ ReadLine(l)

\* the source cannot be opened: FileNotFoundError, or any other exception of
\* open_func, before a line is read
OpenFails ==
    /\ pc = "reading"
    /\ line_number = 0
    /\ pc' = "failed"
    /\ result' = ReturnOnError(parsed_data)
    /\ UNCHANGED <<parsed_data, line_number, line, log_records, summary, history>>
    /\ UNCHANGED engine_vars

\* reading the next line raises (an I/O or decoding error of the file
\* object) after some lines were applied: the outer "except Exception"
ReadFails ==
    /\ pc = "reading"
    /\ line_number >= 1
    /\ pc' = "failed"
    /\ result' = ReturnOnError(parsed_data)
    /\ log_records' = [log_records EXCEPT !.error = @ + 1]
    /\ UNCHANGED <<parsed_data, line_number, line, summary, history>>
    /\ UNCHANGED engine_vars

\* parse_log_file is called again on the same aggregator: nothing but
\* __init__ assigns a fresh parsed_data
ParseLogFileAgain ==
    /\ pc \in {"done", "failed"}
    /\ history.passes < MaxPasses
    /\ pc' = "reading"
    /\ line_number' = 0
    /\ result' = Pending
    /\ history' = [history EXCEPT !.passes = @ + 1,
                                  !.pass_data = InitialData,
                                  !.summaries = 0]
    /\ UNCHANGED <<parsed_data, line, log_records, summary>>
    /\ UNCHANGED engine_vars

\* get_summary is called between two parse_log_file calls
GetSummary ==
    /\ pc \in {"done", "failed"}
    /\ history.summaries < MaxSummaries
    /\ LET r == get_summary(parsed_data)
       IN  /\ summary' = r.summary
           /\ parsed_data' = r.data
    /\ history' = [history EXCEPT !.summaries = @ + 1]
    /\ UNCHANGED <<line_number, line, log_records, pc, result>>
    /\ UNCHANGED engine_vars

CallNext ==
    \/ CallReadLine
    \/ EndOfFile
    \/ OpenFails
    \/ ReadFails
    \/ ParseLogFileAgain
    \/ GetSummary

CallSpec == Init /\ [][CallNext]_vars

-----------------------------------------------------------------------------
(* AnalysisEngine._format_duration *)

\* f"{n:02d}", the two decimals of the seconds field
TwoDigits(n) == IF n < 10 THEN "0" \o ToString(n) ELSE ToString(n)

\* f"{seconds_val:.2f}s" of a value of the given number of hundredths
SecondsText(hundredths) ==
    ToString(hundredths \div 100) \o "." \o TwoDigits(hundredths % 100) \o "s"

\* f"{int(days)}d", f"{int(hours)}h", f"{int(minutes)}m"
PartText(part) ==
    IF part.unit = "s" THEN SecondsText(part.value)
    ELSE ToString(part.value) \o part.unit

\* " ".join(parts)
RECURSIVE Join(_)
Join(parts) ==
    IF parts = <<>> THEN ""
    ELSE IF Len(parts) = 1 THEN PartText(parts[1])
    ELSE PartText(parts[1]) \o " " \o Join(Tail(parts))

\* ":.2f" of a seconds value given in milliseconds: the hundredths printed.
\* The value is floor_ms when exact, and lies strictly between floor_ms and
\* floor_ms + 1 otherwise.  A value that ends in exactly 5 ms sits halfway
\* between two printed values; which one the binary float nearest to it
\* rounds to depends on the value (0.005 prints 0.01, 0.125 prints 0.12), and
\* up is that direction.
RoundHundredths(floor_ms, exact, up) ==
    LET q == floor_ms \div 10
        r == floor_ms % 10
    IN  IF r < 5 THEN q
        ELSE IF r > 5 \/ ~exact THEN q + 1
        ELSE IF up THEN q + 1 ELSE q

\* lines 19-28 with the seconds left out whenever a larger unit is printed
FormatParts_SecondsOnlyAlone(floor_ms, exact, up) ==
    LET days == floor_ms \div 86400000
        remainder1 == floor_ms % 86400000
        hours == remainder1 \div 3600000
        remainder2 == remainder1 % 3600000
        minutes == remainder2 \div 60000
        seconds_floor == remainder2 % 60000
        larger == (IF days > 0 THEN <<[unit |-> "d", value |-> days]>> ELSE <<>>)
                  \o (IF hours > 0 THEN <<[unit |-> "h", value |-> hours]>> ELSE <<>>)
                  \o (IF minutes > 0 THEN <<[unit |-> "m", value |-> minutes]>> ELSE <<>>)
        parts == IF larger = <<>>
                 THEN larger \o <<[unit |-> "s",
                                   value |-> RoundHundredths(seconds_floor, exact, up)]>>
                 ELSE larger
    IN  [text |-> IF parts # <<>> THEN Join(parts) ELSE "0.00s", parts |-> parts]

\* lines 19-28: divmod into days, hours, minutes and seconds_val, the parts
\* appended and joined.  The result is the string and, for the properties,
\* the parts it is made of (the seconds in hundredths).
FormatParts(floor_ms, exact, up) ==
    LET days == floor_ms \div 86400000
        remainder1 == floor_ms % 86400000
        hours == remainder1 \div 3600000
        remainder2 == remainder1 % 3600000
        minutes == remainder2 \div 60000
        seconds_floor == remainder2 % 60000
        seconds_val_positive == seconds_floor > 0 \/ ~exact
        larger == (IF days > 0 THEN <<[unit |-> "d", value |-> days]>> ELSE <<>>)
                  \o (IF hours > 0 THEN <<[unit |-> "h", value |-> hours]>> ELSE <<>>)
                  \o (IF minutes > 0 THEN <<[unit |-> "m", value |-> minutes]>> ELSE <<>>)
        parts == IF \/ seconds_val_positive
                    \/ larger = <<>>
                    \/ (days = 0 /\ hours = 0 /\ minutes = 0)
                 THEN larger \o <<[unit |-> "s",
                                   value |-> RoundHundredths(seconds_floor, exact, up)]>>
                 ELSE larger
    IN  [text |-> IF parts # <<>> THEN Join(parts) ELSE "0.00s", parts |-> parts]

\* _format_duration without the test for a negative value
_format_duration_NoSignTest(milliseconds, up) ==
    IF milliseconds = None THEN [text |-> "N/A", parts |-> <<>>]
    ELSE IF milliseconds < 0
         THEN [text |-> "-" \o FormatParts(0 - milliseconds, TRUE, up).text,
               parts |-> FormatParts(0 - milliseconds, TRUE, up).parts]
         ELSE FormatParts(milliseconds, TRUE, up)

\* AnalysisEngine._format_duration on None or an integer millisecond count
_format_duration(milliseconds, up) ==
    IF milliseconds = None THEN [text |-> "N/A", parts |-> <<>>]
    ELSE IF milliseconds < 0 THEN [text |-> "Invalid duration", parts |-> <<>>]
    ELSE FormatParts(milliseconds, TRUE, up)

\* most days of a formatted duration
MaxDays == 1
\* the components the inputs are made of: whole days, hours and minutes, and
\* a rest below one minute in milliseconds
FormatDays == 0..MaxDays
FormatHours == {0, 1, 23}
FormatMinutes == {0, 1, 59}
FormatMillis == {0, 1, 4, 5, 10, 125, 994, 995, 1000, 1500, 59994, 59995, 59996, 59999}
NegativeMillis == {-1, -5, -1500, -86400000}
FormatInputs ==
    {d * 86400000 + h * 3600000 + m * 60000 + r :
        d \in FormatDays, h \in FormatHours, m \in FormatMinutes, r \in FormatMillis}
    \cup NegativeMillis \cup {None}

\* the state of the aggregator while the engine is at work: the two objects
\* share nothing
ParserIdle ==
    /\ parsed_data = InitialData
    /\ line_number = 0
    /\ line = ObjectLine(EmptyDict)
    /\ log_records = [warning |-> 0, error |-> 0]
    /\ pc = "reading"
    /\ result = Pending
    /\ summary = NoSummary
    /\ history = [clean_data |-> InitialData, stage_submitted |-> 0, declared_tasks |-> 0,
                  passes |-> 1, pass_data |-> InitialData, summaries |-> 0]

\* the value a call returned
Returned(value) == [kind |-> "returned", value |-> value]

FormatInit ==
    /\ ParserIdle
    /\ engine_call \in {[method |-> "_format_duration", arg |-> a] : a \in FormatInputs}
    /\ engine_result = NoResult

\* the call of _format_duration(engine_call.arg)
FormatDuration ==
    /\ engine_call.method = "_format_duration"
    /\ engine_result = NoResult
    /\ \E up \in BOOLEAN :
          engine_result' = Returned(_format_duration(engine_call.arg, up))
    /\ UNCHANGED engine_call
    /\ UNCHANGED parser_vars

FormatNext == FormatDuration

FormatSpec == FormatInit /\ [][FormatNext]_vars

-----------------------------------------------------------------------------
(* AnalysisEngine.analyze_run_history *)

\* AnalysisEngine._format_timestamp, for the timestamps of the first minute
\* after the epoch (the start times of the run records below): strftime
\* prints whole seconds
_format_timestamp(timestamp_ms, include_tz) ==
    IF timestamp_ms = None THEN "N/A"
    ELSE "1970-01-01 00:00:" \o TwoDigits(timestamp_ms \div 1000)
             \o (IF include_tz THEN " UTC" ELSE "")

\* "return None"
ReturnedNoValue == [kind |-> "None"]
\* an exception that leaves the method
Raised(exception) == [kind |-> "raised", exception |-> exception]

\* [run[field] for run in job_runs_raw if run.get(field) is not None]
RECURSIVE ValuesPresent(_, _)
ValuesPresent(runs, field) ==
    IF runs = <<>> THEN <<>>
    ELSE (IF Get(Head(runs), field, None) # None THEN <<Head(runs)[field]>> ELSE <<>>)
             \o ValuesPresent(Tail(runs), field)

RECURSIVE Sum(_)
Sum(values) == IF values = <<>> THEN 0 ELSE Head(values) + Sum(Tail(values))
RECURSIVE SumOfSquares(_)
SumOfSquares(values) ==
    IF values = <<>> THEN 0 ELSE Head(values) * Head(values) + SumOfSquares(Tail(values))
Minimum(values) ==
    CHOOSE v \in {values[i] : i \in DOMAIN values} : \A i \in DOMAIN values : v <= values[i]
Maximum(values) ==
    CHOOSE v \in {values[i] : i \in DOMAIN values} : \A i \in DOMAIN values : v >= values[i]

\* sorted(items, key=..., reverse=True), keys[i] being the key of items[i]:
\* descending by key, items of equal key in their input order (the sort is
\* stable)
SortedDescending(items, keys) ==
    LET Position(i) ==
            Cardinality({j \in DOMAIN items : keys[j] > keys[i]})
            + Cardinality({j \in DOMAIN items : j < i /\ keys[j] = keys[i]})
            + 1
    IN  [p \in DOMAIN items |-> items[CHOOSE i \in DOMAIN items : Position(i) = p]]

\* list.reverse()
Reversed(items) == [i \in DOMAIN items |-> items[Len(items) + 1 - i]]

\* the first min(3, len(items)) items
FirstThree(items) == [i \in 1..(IF Len(items) < 3 THEN Len(items) ELSE 3) |-> items[i]]

\* a number that need not be whole, as a fraction
Fraction(num, den) == [num |-> num, den |-> den]
\* its whole part, and whether it is whole
Floor(q) == q.num \div q.den
IsWhole(q) == q.num % q.den = 0

\* float(np.median(a)): the middle value, or the mean of the two middle ones
Median(values) ==
    LET sorted == SortedDescending(values, values)
        n == Len(values)
    IN  IF n % 2 = 1 THEN Fraction(sorted[(n + 1) \div 2], 1)
        ELSE Fraction(sorted[n \div 2] + sorted[n \div 2 + 1], 2)

\* float(np.std(a)), the population standard deviation
\* sqrt(n*sum(x^2) - sum(x)^2) / n, as its whole part and whether it is whole
StdDev(values) ==
    LET n == Len(values)
        square == Fraction(n * SumOfSquares(values) - Sum(values) * Sum(values), n * n)
        floor == CHOOSE k \in 0..Maximum(values) :
                    /\ k * k * square.den <= square.num
                    /\ (k + 1) * (k + 1) * square.den > square.num
    IN  [floor |-> floor, exact |-> floor * floor * square.den = square.num]

\* duration_stats_ms of a non-empty list of durations
DurationStatsMs(durations_ms) ==
    [min |-> Minimum(durations_ms),
     max |-> Maximum(durations_ms),
     mean |-> Fraction(Sum(durations_ms), Len(durations_ms)),
     median |-> Median(durations_ms),
     std_dev |-> StdDev(durations_ms)]

\* duration_stats_str: _format_duration of each of them (none of the values
\* below ends in exactly 5 ms, so the rounding direction is immaterial)
DurationStatsStr(stats) ==
    [min |-> FormatParts(stats.min, TRUE, TRUE).text,
     max |-> FormatParts(stats.max, TRUE, TRUE).text,
     mean |-> FormatParts(Floor(stats.mean), IsWhole(stats.mean), TRUE).text,
     median |-> FormatParts(Floor(stats.median), IsWhole(stats.median), TRUE).text,
     std_dev |-> FormatParts(stats.std_dev.floor, stats.std_dev.exact, TRUE).text]

\* run.get('result_state', 'UNKNOWN')
ResultState(run) == Get(run, "result_state", "UNKNOWN")

\* Counter(result_states)
StatusCounts(runs) ==
    [state \in {ResultState(runs[i]) : i \in DOMAIN runs} |->
        Cardinality({i \in DOMAIN runs : ResultState(runs[i]) = state})]

\* f"{success_rate:.2f}%" of successful_runs / num_runs * 100
SuccessRatePercent(successful_runs, num_runs) ==
    LET hundredths == RoundDiv(successful_runs * 10000, num_runs)
    IN  ToString(hundredths \div 100) \o "." \o TwoDigits(hundredths % 100) \o "%"

\* one entry of the longest, shortest and recent_failures lists
NotableRun(run) ==
    [run_id |-> Get(run, "run_id", None),
     duration_str |-> _format_duration(Get(run, "execution_duration", None), TRUE).text,
     start_time_utc |-> _format_timestamp(Get(run, "start_time", None), FALSE),
     result_state |-> Get(run, "result_state", NoneStr)]

NotableRuns(runs) == [i \in DOMAIN runs |-> NotableRun(runs[i])]

\* the test of line 165 without its second half
IsRecentFailure_AnyNonSuccess(run) ==
    Get(run, "result_state", NoneStr) # "SUCCESS"

\* run.get('result_state') != "SUCCESS" and run.get('result_state') != "UNKNOWN"
IsRecentFailure(run) ==
    /\ Get(run, "result_state", NoneStr) # "SUCCESS"
    /\ Get(run, "result_state", NoneStr) # "UNKNOWN"

\* the loop of lines 164-175 over runs_sorted_by_time_desc
RECURSIVE RecentFailures(_, _)
RecentFailures(runs, failed_count) ==
    IF runs = <<>> THEN <<>>
    ELSE LET run == Head(runs)
         IN  IF IsRecentFailure(run)
             THEN IF failed_count < 3
                  THEN <<NotableRun(run)>> \o RecentFailures(Tail(runs), failed_count + 1)
                  ELSE <<>>
             ELSE RecentFailures(Tail(runs), failed_count)

\* the key lambda r: r.get(field, 0)
KeyOf(run, field) == Get(run, field, 0)

\* sorted(...) compares the keys with <: with two or more items, one key that
\* is None (the field is present and null) raises TypeError
SortRaises(runs, field) ==
    /\ Len(runs) >= 2
    /\ \E i \in DOMAIN runs : KeyOf(runs[i], field) = None

\* AnalysisEngine.analyze_run_history.  job_runs_raw is [present, runs]:
\* the argument is None when present is FALSE.
analyze_run_history(job_runs_raw) ==
    IF ~job_runs_raw.present \/ job_runs_raw.runs = <<>> THEN ReturnedNoValue
    ELSE
    LET runs == job_runs_raw.runs
        num_runs == Len(runs)
        durations_ms == ValuesPresent(runs, "execution_duration")
        start_times_ms == ValuesPresent(runs, "start_time")
        status_counts == StatusCounts(runs)
        successful_runs == Get(status_counts, "SUCCESS", 0)
        stats == DurationStatsMs(durations_ms)
        runs_sorted_by_duration ==
            SortedDescending(runs, [i \in DOMAIN runs |-> KeyOf(runs[i], "execution_duration")])
        runs_sorted_by_time_desc ==
            SortedDescending(runs, [i \in DOMAIN runs |-> KeyOf(runs[i], "start_time")])
    IN  IF SortRaises(runs, "execution_duration") \/ SortRaises(runs, "start_time")
        THEN Raised("TypeError")
        ELSE Returned(
            [total_runs_analyzed |-> num_runs,
             period_start_utc |-> IF start_times_ms # <<>>
                                  THEN _format_timestamp(Minimum(start_times_ms), TRUE)
                                  ELSE "N/A",
             period_end_utc |-> IF start_times_ms # <<>>
                                THEN _format_timestamp(Maximum(start_times_ms), TRUE)
                                ELSE "N/A",
             duration_stats_ms |-> IF durations_ms # <<>> THEN <<stats>> ELSE <<>>,
             duration_stats_str |-> IF durations_ms # <<>>
                                    THEN <<DurationStatsStr(stats)>> ELSE <<>>,
             success_rate_percent |-> SuccessRatePercent(successful_runs, num_runs),
             status_counts |-> status_counts,
             notable_runs |->
                [longest |-> NotableRuns(FirstThree(runs_sorted_by_duration)),
                 shortest |-> NotableRuns(FirstThree(Reversed(runs_sorted_by_duration))),
                 recent_failures |-> RecentFailures(runs_sorted_by_time_desc, 0)]])

\* longest run list analysed
MaxRuns == 6

\* the run records the lists are made of: a short success, a long failure, a
\* record without a duration, a record whose duration is null, a record
\* that has a duration only, and the most recent one, whose result_state is
\* the string "UNKNOWN"
RunShapes ==
    {("execution_duration" :> 100) @@ ("result_state" :> "SUCCESS") @@ ("start_time" :> 1000),
     ("execution_duration" :> 300) @@ ("result_state" :> "FAILED") @@ ("start_time" :> 2000),
     ("result_state" :> "SUCCESS") @@ ("start_time" :> 3000),
     ("execution_duration" :> None) @@ ("result_state" :> "SUCCESS") @@ ("start_time" :> 0),
     ("execution_duration" :> 100),
     ("execution_duration" :> 200) @@ ("result_state" :> "UNKNOWN") @@ ("start_time" :> 4000)}

\* the caller has no list (job_runs_raw is None) or starts from an empty one
HistoryInit ==
    /\ ParserIdle
    /\ engine_call \in {[method |-> "analyze_run_history",
                         arg |-> [present |-> present, runs |-> <<>>]] : present \in BOOLEAN}
    /\ engine_result = NoResult

\* the caller appends one more record to the list it will pass, the run_id
\* of a record being its place in the list
AppendRun ==
    /\ engine_call.method = "analyze_run_history"
    /\ engine_result = NoResult
    /\ engine_call.arg.present
    /\ Len(engine_call.arg.runs) < MaxRuns
    /\ \E shape \in RunShapes :
          engine_call' =
              [engine_call EXCEPT !.arg.runs =
                  Append(@, ("run_id" :> Len(@) + 1) @@ shape)]
    /\ UNCHANGED engine_result
    /\ UNCHANGED parser_vars

\* the call of analyze_run_history(engine_call.arg)
AnalyzeRunHistory ==
    /\ engine_call.method = "analyze_run_history"
    /\ engine_result = NoResult
    /\ engine_result' = analyze_run_history(engine_call.arg)
    /\ UNCHANGED engine_call
    /\ UNCHANGED parser_vars

HistoryNext ==
    \/ AppendRun
    \/ AnalyzeRunHistory

HistorySpec == HistoryInit /\ [][HistoryNext]_vars

-----------------------------------------------------------------------------
(* AnalysisEngine.process_run_details_for_report *)

\* str(x).upper() of the result_state values below
StrUpper(str) ==
    CASE str = "success" -> "SUCCESS"
      [] str = "None" -> "NONE"
      [] OTHER -> str

\* lines 188-197: the cluster type and number of workers shown
ClusterDisplay(cluster_spec) ==
    IF Get(cluster_spec, "existing_cluster_id", "") # ""
    THEN [type |-> "Existing Cluster: " \o cluster_spec["existing_cluster_id"],
          num_workers |->
              IF "num_workers" \in DOMAIN cluster_spec
              THEN ToString(cluster_spec["num_workers"])
              ELSE IF "autoscale" \in DOMAIN cluster_spec
              THEN "Autoscaling ("
                       \o (IF "min_workers" \in DOMAIN cluster_spec["autoscale"]
                           THEN ToString(cluster_spec["autoscale"]["min_workers"]) ELSE "N/A")
                       \o "-"
                       \o (IF "max_workers" \in DOMAIN cluster_spec["autoscale"]
                           THEN ToString(cluster_spec["autoscale"]["max_workers"]) ELSE "N/A")
                       \o ")"
              ELSE "N/A (details not fully resolved)"]
    ELSE IF cluster_spec # EmptyDict
    THEN [type |-> "New Job Cluster",
          num_workers |-> IF "num_workers" \in DOMAIN cluster_spec
                          THEN ToString(cluster_spec["num_workers"]) ELSE "N/A"]
    ELSE [type |-> "N/A", num_workers |-> "N/A"]

\* error_msg[:200] followed by '...' when error_msg is longer
ErrorExcerpt(error_msg) ==
    IF Len(error_msg) > 200 THEN SubSeq(error_msg, 1, 200) \o "..." ELSE error_msg

\* "if run_output_data": the argument is neither None nor empty
OutputGiven(run_output_data) ==
    run_output_data.present /\ run_output_data.data # EmptyDict

\* lines 211-215: the alert of a run that did not succeed
FailureAlert(result_state, run_output_data) ==
    "Run did not succeed. Result State: " \o result_state
        \o (IF OutputGiven(run_output_data) /\ Get(run_output_data.data, "error", "") # ""
            THEN " | Error: " \o ErrorExcerpt(run_output_data.data["error"])
            ELSE "")

\* line 217: the alert of a long run
DurationAlert(duration_str) == "Run duration (" \o duration_str \o ") is significant."

\* 2 * 60 * 60 * 1000
SignificantDurationMs == 7200000

\* lines 219-227: summary["run_output_summary"]
RunOutputSummary(output) ==
    LET notebook_output == Get(output, "notebook_output", EmptyDict)
    IN  (IF Get(output, "error", "") # ""
         THEN "error_message" :> output["error"] ELSE EmptyDict)
        @@ (IF Get(output, "error_trace", "") # ""
            THEN "error_trace_present" :> TRUE ELSE EmptyDict)
        @@ (IF Get(notebook_output, "result", "") # ""
            THEN ("notebook_result_present" :> TRUE)
                 @@ ("notebook_output_truncated" :> Get(notebook_output, "truncated", FALSE))
            ELSE EmptyDict)
        @@ (IF "logs_truncated" \in DOMAIN output
            THEN "standard_logs_truncated" :> output["logs_truncated"] ELSE EmptyDict)

\* AnalysisEngine.process_run_details_for_report.  Each argument is
\* [present, data]: it is None when present is FALSE.  The key
\* run_output_summary of the summary exists when its sequence holds a value.
process_run_details_for_report(run_api_data, run_output_data) ==
    IF ~run_api_data.present \/ run_api_data.data = EmptyDict THEN ReturnedNoValue
    ELSE
    LET run == run_api_data.data
        cluster_spec == Get(run, "cluster_spec", EmptyDict)
        result_state == Get(run, "result_state", "N/A")
        is_success == StrUpper(Get(run, "result_state", "")) = "SUCCESS"
        duration_str == _format_duration(Get(run, "duration_ms", None), TRUE).text
    IN  \* line 216 compares run_api_data.get('duration_ms', 0) with an int:
        \* a duration_ms that is present and None raises TypeError
        IF Get(run, "duration_ms", 0) = None THEN Raised("TypeError")
        ELSE Returned(
            [run_id |-> Get(run, "run_id", "N/A"),
             run_name |-> Get(run, "run_name", "N/A"),
             notebook_path |-> Get(run, "notebook_path", "N/A"),
             status |-> [life_cycle_state |-> Get(run, "state", "N/A"),
                         result_state |-> result_state,
                         is_success |-> is_success],
             timing |-> [start_time_utc |-> _format_timestamp(Get(run, "start_time_ms", None), TRUE),
                         end_time_utc |-> _format_timestamp(Get(run, "end_time_ms", None), TRUE),
                         duration_str |-> duration_str,
                         duration_ms |-> Get(run, "duration_ms", None)],
             cluster_info |-> [type |-> ClusterDisplay(cluster_spec).type,
                               node_type |-> Get(cluster_spec, "node_type_id", "N/A"),
                               driver_node_type |-> Get(cluster_spec, "driver_node_type_id", "N/A"),
                               num_workers |-> ClusterDisplay(cluster_spec).num_workers,
                               spark_version |-> Get(cluster_spec, "spark_version", "N/A")],
             run_page_url |-> Get(run, "run_page_url", "N/A"),
             job_id |-> Get(run, "job_id", "N/A"),
             alerts |->
                (IF ~is_success THEN <<FailureAlert(result_state, run_output_data)>> ELSE <<>>)
                \o (IF Get(run, "duration_ms", 0) > SignificantDurationMs
                    THEN <<DurationAlert(duration_str)>> ELSE <<>>),
             run_output_summary |->
                IF OutputGiven(run_output_data)
                THEN <<RunOutputSummary(run_output_data.data)>> ELSE <<>>])

\* the cluster_spec values of the runs below: none resolved, an existing
\* cluster with a fixed size, with an autoscale range, with neither, and a
\* new job cluster
ClusterSpecs ==
    {EmptyDict,
     ("existing_cluster_id" :> "c-1") @@ ("num_workers" :> 4) @@ ("node_type_id" :> "m5"),
     ("existing_cluster_id" :> "c-1")
         @@ ("autoscale" :> (("min_workers" :> 2) @@ ("max_workers" :> 8))),
     ("existing_cluster_id" :> "c-1"),
     ("num_workers" :> 2) @@ ("spark_version" :> "13.3")}

\* the runs: as the connector's get_run_details builds them (every key
\* present, None where the API gave nothing) or with a key left out
RunApiData ==
    {("run_id" :> 7) @@ ("start_time_ms" :> 1000) @@ rs @@ dur @@ cs :
        rs \in Optional("result_state", {NoneStr, "SUCCESS", "success", "FAILED"}),
        dur \in Optional("duration_ms", {None, 100, SignificantDurationMs,
                                         SignificantDurationMs + 1}),
        cs \in Optional("cluster_spec", ClusterSpecs)}
    \cup {EmptyDict}

\* an error message of 201 characters
FiftyChars == "eeeeeeeeeeeeeeeeeeeeeeeeeeeeeeeeeeeeeeeeeeeeeeeeee"
LongError == FiftyChars \o FiftyChars \o FiftyChars \o FiftyChars \o "e"

\* the run outputs: empty, a short error, a long error with a trace, and a
\* notebook result with the truncation flags
RunOutputData ==
    {EmptyDict,
     "error" :> "boom",
     ("error" :> LongError) @@ ("error_trace" :> "Traceback"),
     ("notebook_output" :> (("result" :> "ok") @@ ("truncated" :> TRUE)))
         @@ ("logs_truncated" :> FALSE)}

ReportInputs ==
    {[run_api_data |-> [present |-> TRUE, data |-> run],
      run_output_data |-> [present |-> TRUE, data |-> output]] :
        run \in RunApiData, output \in RunOutputData}
    \cup {[run_api_data |-> [present |-> TRUE, data |-> run],
           run_output_data |-> [present |-> FALSE, data |-> EmptyDict]] :
            run \in RunApiData}
    \cup {[run_api_data |-> [present |-> FALSE, data |-> EmptyDict],
           run_output_data |-> [present |-> FALSE, data |-> EmptyDict]]}

ReportInit ==
    /\ ParserIdle
    /\ engine_call \in {[method |-> "process_run_details_for_report", arg |-> a] :
                            a \in ReportInputs}
    /\ engine_result = NoResult

\* the call of process_run_details_for_report(run_api_data, run_output_data)
ProcessRunDetails ==
    /\ engine_call.method = "process_run_details_for_report"
    /\ engine_result = NoResult
    /\ engine_result' = process_run_details_for_report(engine_call.arg.run_api_data,
                                                        engine_call.arg.run_output_data)
    /\ UNCHANGED engine_call
    /\ UNCHANGED parser_vars

ReportNext == ProcessRunDetails

ReportSpec == ReportInit /\ [][ReportNext]_vars

-----------------------------------------------------------------------------
(* Properties *)

metrics == parsed_data.summary_metrics

\* this step read a line
LineRead == line_number' = line_number + 1

\* the "Job ID" of a JobEnd line and its result tag
JobIdOf(l) == Get(l.value, "Job ID", None)
ResultOf(l) == Get(Get(l.value, "Job Result", EmptyDict), "Result", NoneStr)
\* the "Stage Info" of a stage line and its "Stage ID"
StageInfoOf(l) == Get(l.value, "Stage Info", EmptyDict)
StageIdOf(l) == Get(StageInfoOf(l), "Stage ID", None)

\* C1: a line that cannot be processed (invalid JSON, or JSON that is not an
\* object) is skipped without aborting the pass: parsed_data always equals
\* the data of the same pass with the bad lines removed, and reading a bad
\* line changes nothing and leaves the pass reading.
BadLinesAreSkipped ==
    /\ [](parsed_data = history.clean_data)
    /\ [][(LineRead /\ line'.json # "object")
            => (parsed_data' = parsed_data /\ pc' = "reading")]_vars

\* C1 witness: three lines were read, one of them undecodable, and the stage
\* submitted with 4 tasks is completed
GoodLinesAppliedAroundBadLine ==
    /\ line_number = 3
    /\ log_records.warning = 1
    /\ IsEvent(line, "SparkListenerStageCompleted")
    /\ StartedStageId \in DOMAIN parsed_data.stages
    /\ Get(parsed_data.stages[StartedStageId], "completion_time", None) = 1500
    /\ metrics.total_tasks = 4

\* C2: a JobEnd whose job id has no JobRecord changes nothing: no record is
\* created and the job map, the stage map and every counter stay as they were.
UnknownJobEndIsIgnored ==
    [][(/\ LineRead
        /\ IsEvent(line', "SparkListenerJobEnd")
        /\ JobIdOf(line') \notin DOMAIN parsed_data.jobs)
            => parsed_data' = parsed_data]_vars

\* C2 witness: a JobEnd for a job without a record was read while another job
\* has a record
UnknownJobEndRead ==
    /\ IsEvent(line, "SparkListenerJobEnd")
    /\ JobIdOf(line) \notin DOMAIN parsed_data.jobs
    /\ StartedJobId \in DOMAIN parsed_data.jobs
    /\ metrics.total_jobs = 1

\* C3: a StageCompleted whose stage id has no StageRecord leaves the stage
\* map and every counter unchanged, metrics or not, and logs no error.
UnknownStageCompletedIsIgnored ==
    [][(/\ LineRead
        /\ IsEvent(line', "SparkListenerStageCompleted")
        /\ StageIdOf(line') \notin DOMAIN parsed_data.stages)
            => (parsed_data' = parsed_data /\ log_records' = log_records)]_vars

\* C3 witness: a StageCompleted that carries a metrics block was read for
\* stage 42, which was never submitted, while stage 9 has a record
UnknownStageCompletedRead ==
    /\ IsEvent(line, "SparkListenerStageCompleted")
    /\ StageIdOf(line) = UnknownStageId
    /\ "Task Metrics" \in DOMAIN StageInfoOf(line)
    /\ DOMAIN parsed_data.stages = {StartedStageId}
    /\ metrics.aggregate_input_bytes = 0

\* C4: total_stages equals the number of StageSubmitted events read so far.
TotalStagesCountsSubmitted ==
    metrics.total_stages = history.stage_submitted

\* C4 witness: two StageSubmitted events were read and then a StageCompleted
TwoSubmittedThenCompleted ==
    /\ metrics.total_stages = 2
    /\ IsEvent(line, "SparkListenerStageCompleted")
    /\ StartedStageId \in DOMAIN parsed_data.stages
    /\ "completion_time" \in DOMAIN parsed_data.stages[StartedStageId]

\* C5: total_tasks equals the sum of the task counts declared by the
\* StageSubmitted events read so far (0 for an event that declares none).
TotalTasksSumsDeclared ==
    metrics.total_tasks = history.declared_tasks

\* C5 witness: three StageSubmitted events, two of them declaring 4 tasks and
\* one declaring none, and then a StageCompleted
TasksSummedAtSubmission ==
    /\ history.stage_submitted = 3
    /\ metrics.total_tasks = 8
    /\ IsEvent(line, "SparkListenerStageCompleted")
    /\ "completion_time" \in DOMAIN parsed_data.stages[StartedStageId]

\* C6: no step makes any summary_metrics counter smaller than it was.
CountersNeverDecrease ==
    [][\A c \in DOMAIN metrics :
          parsed_data'.summary_metrics[c] >= metrics[c]]_vars

JobDurationIsCompletionMinusSubmission ==
    [][(/\ LineRead
        /\ IsEvent(line', "SparkListenerJobEnd")
        /\ "Completion Time" \in DOMAIN line'.value
        /\ ResultOf(line') = "JobSucceeded"
        /\ JobIdOf(line') \in DOMAIN parsed_data.jobs
        /\ parsed_data.jobs[JobIdOf(line')].submission_time # None)
            => /\ Get(parsed_data'.jobs[JobIdOf(line')], "duration_ms", None)
                    = line'.value["Completion Time"]
                        - parsed_data.jobs[JobIdOf(line')].submission_time
               /\ parsed_data'.summary_metrics.successful_jobs
                    = metrics.successful_jobs + 1]_vars

\* the duration_ms of record id in the map m, None when there is none
DurationOf(m, id) == IF id \in DOMAIN m THEN Get(m[id], "duration_ms", None) ELSE None

\* the records of the job map and of the stage map
Records == {parsed_data.jobs[j] : j \in DOMAIN parsed_data.jobs}
               \cup {parsed_data.stages[s] : s \in DOMAIN parsed_data.stages}

\* C9 (as claimed): every duration_ms stored on a JobRecord or a StageRecord
\* is >= 0.
DurationsNeverNegative ==
    \A r \in Records : "duration_ms" \in DOMAIN r => r.duration_ms >= 0

\* in the map m', every duration that this step stored anew is the plain
\* difference of the record's two timestamps
NewDurationsArePlain(m, mNext) ==
    \A id \in DOMAIN mNext :
        LET d == DurationOf(mNext, id)
        IN  (d # None /\ d # DurationOf(m, id))
                => /\ d = mNext[id].completion_time - mNext[id].submission_time
                   /\ (d >= 0 <=> mNext[id].completion_time >= mNext[id].submission_time)

\* C9 (amended): every duration_ms a step stores is completion_time minus
\* submission_time of its record, not clamped: it is >= 0 when the
\* completion time is not earlier than the submission time and negative
\* when it is earlier.
StoredDurationIsPlainDifference ==
    [][/\ NewDurationsArePlain(parsed_data.jobs, parsed_data'.jobs)
       /\ NewDurationsArePlain(parsed_data.stages, parsed_data'.stages)]_vars

\* C9 witness: a JobEnd whose completion time is earlier than the submission
\* time of its job was read, and the job's duration_ms is negative
NegativeJobDurationStored ==
    /\ IsEvent(line, "SparkListenerJobEnd")
    /\ StartedJobId \in DOMAIN parsed_data.jobs
    /\ parsed_data.jobs[StartedJobId].submission_time = 1000
    /\ Get(parsed_data.jobs[StartedJobId], "completion_time", None) = 500
    /\ DurationOf(parsed_data.jobs, StartedJobId) = -500

\* C10: a JobRecord or StageRecord carries a duration_ms only if it has both
\* a non-null submission time and a non-null completion time.
DurationOnlyWithBothTimestamps ==
    \A r \in Records :
        "duration_ms" \in DOMAIN r
            => /\ Get(r, "submission_time", None) # None
               /\ Get(r, "completion_time", None) # None

\* C11: a fatal source error is reported as None, never as a partial result:
\* a call that failed (the source could not be opened, or reading it raised
\* after lines were applied) has returned None, and a call has returned the
\* aggregated data only if it read its source to the end.
FatalErrorReturnsNone ==
    /\ (pc = "failed" => result = ReturnedNone)
    /\ (result.kind = "data" => (pc = "done" /\ result.data = parsed_data))
    /\ (pc = "done" => result.kind = "data")

\* C11 witness: reading failed after a JobStart was applied, and the call
\* returned None although parsed_data holds the job
FailedAfterLinesApplied ==
    /\ pc = "failed"
    /\ line_number >= 1
    /\ StartedJobId \in DOMAIN parsed_data.jobs
    /\ result = ReturnedNone

\* this step is a get_summary call
SummaryTaken == history'.summaries = history.summaries + 1

\* C12: get_summary is a read-only projection: a call leaves parsed_data
\* (application info, job map, stage map, counters) as it was, and a call
\* that follows another one with no event in between returns an equal
\* summary.
GetSummaryIsReadOnly ==
    [][SummaryTaken
        => /\ parsed_data' = parsed_data
           /\ (history.summaries >= 1 => summary' = summary)]_vars

\* C12 witness: get_summary was called twice in a row on a job map that
\* holds a job with a derived duration
SummaryTakenTwice ==
    /\ history.summaries = 2
    /\ DurationOf(parsed_data.jobs, StartedJobId) = 500
    /\ summary.job_summary.jobs[1].duration = SecondsString(500)

\* C13: nothing persists across passes: when a parse_log_file call has read
\* its source to the end, parsed_data (the result) is what a fresh aggregator
\* makes of that source alone.
NothingPersistsAcrossPasses ==
    pc = "done" => result.data = history.pass_data

\* _format_duration has returned for the millisecond count m
Formatted(m) ==
    /\ engine_call.method = "_format_duration"
    /\ engine_call.arg = m
    /\ engine_result.kind = "returned"

\* C14: format_duration returns "N/A" for an absent input, "Invalid duration"
\* for every negative millisecond count (never a formatted negative value),
\* and "0.00s" for 0.
SentinelsOfFormatDuration ==
    (engine_call.method = "_format_duration" /\ engine_result.kind = "returned")
    => LET m == engine_call.arg
           out == engine_result.value
       IN  /\ (m = None => out.text = "N/A" /\ out.parts = <<>>)
           /\ (m # None /\ m < 0 => out.text = "Invalid duration" /\ out.parts = <<>>)
           /\ (m = 0 => out.text = "0.00s")
           /\ (out.text = "N/A" => m = None)
           /\ (out.text = "Invalid duration" => m # None /\ m < 0)

\* C14 witness: a negative count was formatted as the sentinel
NegativeFormatted ==
    /\ Formatted(-1500)
    /\ engine_result.value.text = "Invalid duration"

\* the units of the parts, in the order printed
UnitsOf(parts) == [i \in DOMAIN parts |-> parts[i].unit]
\* the value printed for a unit (0 when the unit is not printed)
ValueOf(parts, unit) ==
    IF \E i \in DOMAIN parts : parts[i].unit = unit
    THEN (CHOOSE part \in {parts[i] : i \in DOMAIN parts} : part.unit = unit).value
    ELSE 0
\* the largest-first order of the units
UnitRank(unit) == CASE unit = "d" -> 1 [] unit = "h" -> 2 [] unit = "m" -> 3 [] unit = "s" -> 4

\* C15: for every millisecond count m >= 0, the units are listed largest
\* first (d, h, m, s); days, hours and minutes are printed exactly when that
\* component is non-zero, and the seconds exactly when the seconds component
\* is non-zero or no larger unit is printed.
UnitsShownWhenNonZero ==
    (engine_call.method = "_format_duration" /\ engine_result.kind = "returned"
        /\ engine_call.arg # None /\ engine_call.arg >= 0)
    => LET m == engine_call.arg
           parts == engine_result.value.parts
           units == {parts[i].unit : i \in DOMAIN parts}
           days == m \div 86400000
           hours == (m % 86400000) \div 3600000
           minutes == (m % 3600000) \div 60000
           seconds_ms == m % 60000
       IN  /\ \A i, j \in DOMAIN parts : i < j => UnitRank(parts[i].unit) < UnitRank(parts[j].unit)
           /\ ("d" \in units <=> days # 0) /\ ValueOf(parts, "d") = days
           /\ ("h" \in units <=> hours # 0) /\ ValueOf(parts, "h") = hours
           /\ ("m" \in units <=> minutes # 0) /\ ValueOf(parts, "m") = minutes
           /\ ("s" \in units <=> (seconds_ms # 0 \/ units \cap {"d", "h", "m"} = {}))
           /\ engine_result.value.text = Join(parts)

\* C15 witness: a whole number of hours and minutes printed without seconds
WholeMinutesPrintNoSeconds ==
    /\ Formatted(3660000)
    /\ engine_result.value.text = "1h 1m"

\* the parts re-parsed as days*86400000 + hours*3600000 + minutes*60000 +
\* seconds*1000
Reparsed(parts) ==
    ValueOf(parts, "d") * 86400000 + ValueOf(parts, "h") * 3600000
        + ValueOf(parts, "m") * 60000 + ValueOf(parts, "s") * 10

\* C16: for every integer millisecond count m >= 0 the printed components
\* sum back to m within 5 ms, and no printed component reaches its carry
\* value (seconds below 60.00, minutes below 60, hours below 24).
RoundTripWithoutCarry ==
    (engine_call.method = "_format_duration" /\ engine_result.kind = "returned"
        /\ engine_call.arg # None /\ engine_call.arg >= 0)
    => LET m == engine_call.arg
           parts == engine_result.value.parts
       IN  /\ Reparsed(parts) - m <= 5
           /\ m - Reparsed(parts) <= 5
           /\ ValueOf(parts, "s") < 6000
           /\ ValueOf(parts, "m") < 60
           /\ ValueOf(parts, "h") < 24

\* analyze_run_history has returned or raised; its argument
Analyzed == engine_call.method = "analyze_run_history" /\ engine_result.kind # "pending"
job_runs_raw == engine_call.arg.runs
NonEmptyList == engine_call.arg.present /\ job_runs_raw # <<>>
\* the call returned a report
ReportReturned == engine_result.kind = "returned"
analysis == engine_result.value

\* C17: analyze_run_history returns None exactly when the run-record list is
\* empty or absent; for every non-empty list it returns a report whose
\* total_runs_analyzed is the number of records.
NoneExactlyForNoRuns ==
    Analyzed
    => /\ (engine_result = ReturnedNoValue <=> ~NonEmptyList)
       /\ (NonEmptyList
              => ReportReturned /\ analysis.total_runs_analyzed = Len(job_runs_raw))

\* the records whose result_state is exactly "SUCCESS"
SuccessRecords ==
    {i \in DOMAIN job_runs_raw :
        "result_state" \in DOMAIN job_runs_raw[i] /\ job_runs_raw[i].result_state = "SUCCESS"}

\* the percentage 100 * part / whole to two decimals, as printed
PercentText(part, whole) ==
    LET hundredths == CHOOSE h \in 0..10000 :
                          /\ 2 * (h * whole - 10000 * part) <= whole
                          /\ 2 * (10000 * part - h * whole) < whole
    IN  ToString(hundredths \div 100) \o "." \o TwoDigits(hundredths % 100) \o "%"

\* C18: for every non-empty run-record list, success_rate_percent is
\* 100 * (records whose result_state is exactly "SUCCESS") / (all records)
\* to two decimals, records without a duration included in the denominator.
SuccessRateOverAllRecords ==
    (Analyzed /\ NonEmptyList)
    => /\ ReportReturned
       /\ analysis.success_rate_percent
              = PercentText(Cardinality(SuccessRecords), Len(job_runs_raw))

\* the records that have a duration, and those whose duration is null
WithDuration ==
    {i \in DOMAIN job_runs_raw :
        "execution_duration" \in DOMAIN job_runs_raw[i]
        /\ job_runs_raw[i].execution_duration # None}
NullDuration ==
    {i \in DOMAIN job_runs_raw :
        "execution_duration" \in DOMAIN job_runs_raw[i]
        /\ job_runs_raw[i].execution_duration = None}

\* the histogram key of a record
StateOf(i) ==
    IF "result_state" \in DOMAIN job_runs_raw[i] THEN job_runs_raw[i].result_state
    ELSE "UNKNOWN"

\* C19: when a record has execution_duration null and other records have
\* durations, a report is still returned: the duration statistics cover only
\* the records that have a duration, the success rate and the histogram
\* count the null-duration record too.
NullDurationIsLeftOutOfStatsOnly ==
    (Analyzed /\ NullDuration # {} /\ WithDuration # {})
    => /\ ReportReturned
       /\ Len(analysis.duration_stats_ms) = 1
       /\ LET stats == analysis.duration_stats_ms[1]
          IN  /\ \A i \in WithDuration : stats.min <= job_runs_raw[i].execution_duration
              /\ \E i \in WithDuration : stats.min = job_runs_raw[i].execution_duration
              /\ \A i \in WithDuration : stats.max >= job_runs_raw[i].execution_duration
              /\ \E i \in WithDuration : stats.max = job_runs_raw[i].execution_duration
              /\ stats.mean.den = Cardinality(WithDuration)
       /\ analysis.success_rate_percent
              = PercentText(Cardinality(SuccessRecords), Len(job_runs_raw))
       /\ \A i \in NullDuration : StateOf(i) \in DOMAIN analysis.status_counts
       /\ \A state \in DOMAIN analysis.status_counts :
              analysis.status_counts[state]
                  = Cardinality({i \in DOMAIN job_runs_raw : StateOf(i) = state})

\* the run ids listed
RunIds(entries) == {entries[i].run_id : i \in DOMAIN entries}

\* C20: for every non-empty list of n run records, longest and shortest each
\* hold exactly min(3, n) entries; they list the same set of records only
\* when n <= 3, and share no record when n >= 6.
LongestShortestSizes ==
    (Analyzed /\ NonEmptyList)
    => /\ ReportReturned
       /\ LET n == Len(job_runs_raw)
              longest == analysis.notable_runs.longest
              shortest == analysis.notable_runs.shortest
          IN  /\ Len(longest) = (IF n < 3 THEN n ELSE 3)
              /\ Len(shortest) = (IF n < 3 THEN n ELSE 3)
              /\ Cardinality(RunIds(longest)) = Len(longest)
              /\ Cardinality(RunIds(shortest)) = Len(shortest)
              /\ (RunIds(longest) = RunIds(shortest) => n <= 3)
              /\ (n >= 6 => RunIds(longest) \cap RunIds(shortest) = {})

\* the run record an entry of a notable-runs list was made from (the run_id
\* of a record is its place in job_runs_raw)
RunOf(entry) == job_runs_raw[entry.run_id]
\* the start time a record is ranked by, a record without one ranking as 0
StartTimeOf(run) == IF "start_time" \in DOMAIN run THEN run.start_time ELSE 0
\* the records whose result_state is neither "SUCCESS" nor "UNKNOWN"
Qualifying ==
    {i \in DOMAIN job_runs_raw :
        ~("result_state" \in DOMAIN job_runs_raw[i]
          /\ job_runs_raw[i].result_state \in {"SUCCESS", "UNKNOWN"})}

Processed ==
    /\ engine_call.method = "process_run_details_for_report"
    /\ engine_result.kind # "pending"
    /\ engine_call.arg.run_api_data.present
    /\ engine_call.arg.run_api_data.data # EmptyDict
run_api_data == engine_call.arg.run_api_data.data

\* result_state compared case-insensitively is "SUCCESS"
Succeeded ==
    /\ "result_state" \in DOMAIN run_api_data
    /\ run_api_data.result_state \in {"SUCCESS", "success"}
\* the run has a duration above 2 hours
LongRun ==
    /\ "duration_ms" \in DOMAIN run_api_data
    /\ run_api_data.duration_ms # None
    /\ run_api_data.duration_ms > 7200000
\* an alert that starts with the given words is in the list
HasAlert(alerts, words) ==
    \E i \in DOMAIN alerts :
        Len(alerts[i]) >= Len(words) /\ SubSeq(alerts[i], 1, Len(words)) = words

\* C22: the run summary's alert list holds the failure alert exactly when
\* result_state, compared case-insensitively, is not "SUCCESS" (a missing
\* result_state included), and the duration alert exactly when the run's
\* duration exceeds 7,200,000 ms, each decided independently of the other.
AlertsDecidedIndependently ==
    Processed
    => /\ engine_result.kind = "returned"
       /\ LET alerts == engine_result.value.alerts
          IN  /\ (HasAlert(alerts, "Run did not succeed.") <=> ~Succeeded)
              /\ (HasAlert(alerts, "Run duration (") <=> LongRun)
              /\ Len(alerts) = (IF Succeeded THEN 0 ELSE 1) + (IF LongRun THEN 1 ELSE 0)

\* the accumulators of a list that have the given name and a JSON number as
\* value, summed
RECURSIVE AccumulatedBytes(_, _)
AccumulatedBytes(accs, names) ==
    IF accs = <<>> THEN 0
    ELSE (IF /\ Get(Head(accs), "Name", NoneStr) \in names
             /\ Get(Head(accs), "Value", None) \notin {None, JsonTrue}
          THEN Head(accs)["Value"] ELSE 0)
         + AccumulatedBytes(Tail(accs), names)

\* what a StageCompleted line adds to the four aggregates, as the claim
\* tells it: from the direct block when there is a non-empty one, else from
\* the accumulators with a recognized name and a numeric value
BytesOf(l) ==
    LET block == Get(StageInfoOf(l), "Task Metrics", EmptyDict)
        accs == Get(StageInfoOf(l), "Accumulables", <<>>)
    IN  IF block # EmptyDict
        THEN [shuffle_read |-> block["Shuffle Read Metrics"]["Remote Bytes Read"]
                                   + block["Shuffle Read Metrics"]["Local Bytes Read"],
              shuffle_write |-> block["Shuffle Write Metrics"]["Shuffle Bytes Written"],
              input |-> block["Input Metrics"]["Bytes Read"],
              output |-> block["Output Metrics"]["Bytes Written"]]
        ELSE [shuffle_read |->
                  AccumulatedBytes(accs, {"internal.metrics.shuffle.read.remoteBytesRead",
                                          "internal.metrics.shuffle.read.localBytesRead"}),
              shuffle_write |->
                  AccumulatedBytes(accs, {"internal.metrics.shuffle.write.bytesWritten"}),
              input |-> AccumulatedBytes(accs, {"internal.metrics.input.bytesRead"}),
              output |-> AccumulatedBytes(accs, {"internal.metrics.output.bytesWritten"})]

\* C23: a StageCompleted for a known stage takes the resource metrics from
\* one source: the four aggregates grow by the values of the non-empty
\* direct block (shuffle read = remote + local) and the accumulators are not
\* consulted; without such a block each accumulator with a recognized name
\* and a numeric value is added to its aggregate, and an accumulator with a
\* non-numeric value or an unrecognized name changes nothing and raises no
\* error.
MetricsComeFromOneSource ==
    [][(/\ LineRead
        /\ IsEvent(line', "SparkListenerStageCompleted")
        /\ StageIdOf(line') \in DOMAIN parsed_data.stages)
            => /\ metrics'.aggregate_shuffle_read_bytes
                      = metrics.aggregate_shuffle_read_bytes + BytesOf(line').shuffle_read
               /\ metrics'.aggregate_shuffle_write_bytes
                      = metrics.aggregate_shuffle_write_bytes + BytesOf(line').shuffle_write
               /\ metrics'.aggregate_input_bytes
                      = metrics.aggregate_input_bytes + BytesOf(line').input
               /\ metrics'.aggregate_output_bytes
                      = metrics.aggregate_output_bytes + BytesOf(line').output
               /\ log_records' = log_records]_vars

\* the six event types _parse_event has a branch for
HandledKinds ==
    {"SparkListenerApplicationStart", "SparkListenerApplicationEnd",
     "SparkListenerJobStart", "SparkListenerJobEnd",
     "SparkListenerStageSubmitted", "SparkListenerStageCompleted"}

\* the line is an object of an unrecognized kind: its "Event" is none of the
\* six, or it has no "Event" field
UnrecognizedKind(l) ==
    l.json = "object" /\ Get(l.value, "Event", NoneStr) \notin HandledKinds

\* C24: an event of an unrecognized kind (an "Event" value other than the
\* six handled ones, or no "Event" field) leaves application info, the job
\* map, the stage map and every counter unchanged and does not fail the
\* pass: nothing is logged for the line and the loop goes on reading.
UnrecognizedKindChangesNothing ==
    [][(LineRead /\ UnrecognizedKind(line'))
            => /\ parsed_data' = parsed_data
               /\ log_records' = log_records
               /\ pc' = "reading"
               /\ result' = result]_vars

\* an event with no "Event" field has been read after a job, a stage and the
\* application start had been recorded
UnrecognizedKindAfterRecords ==
    /\ pc = "reading"
    /\ line.json = "object"
    /\ "Event" \notin DOMAIN line.value
    /\ line.value # EmptyDict
    /\ parsed_data.jobs # EmptyDict
    /\ parsed_data.stages # EmptyDict
    /\ metrics.total_jobs = 1
    /\ metrics.total_stages = 1

\* the duration a record is ranked by, a record without one ranking as 0
DurationRankOf(run) ==
    IF "execution_duration" \in DOMAIN run /\ run.execution_duration # None
    THEN run.execution_duration ELSE 0

\* the record with run_id a stands before the record with run_id b in the
\* stable descending order by duration
BeforeDescending(a, b) ==
    \/ DurationRankOf(job_runs_raw[a]) > DurationRankOf(job_runs_raw[b])
    \/ DurationRankOf(job_runs_raw[a]) = DurationRankOf(job_runs_raw[b]) /\ a < b

\* C25: for a non-empty list, the longest list holds the records in
\* non-increasing execution duration, a record without a duration ranking
\* as 0 and records of equal duration in input order; the shortest list is
\* the first 3 of that descending order reversed: non-decreasing duration,
\* records of equal duration in reverse input order.  Neither ranking
\* filters on result_state: every record of the list competes.
RankingsFollowDuration ==
    (Analyzed /\ NonEmptyList)
    => /\ ReportReturned
       /\ LET longest == analysis.notable_runs.longest
              shortest == analysis.notable_runs.shortest
              all == DOMAIN job_runs_raw
          IN  /\ \A i, j \in DOMAIN longest :
                    i < j => BeforeDescending(longest[i].run_id, longest[j].run_id)
              /\ \A r \in all \ RunIds(longest) : \A l \in RunIds(longest) :
                    BeforeDescending(l, r)
              /\ \A i, j \in DOMAIN shortest :
                    i < j => BeforeDescending(shortest[j].run_id, shortest[i].run_id)
              /\ \A r \in all \ RunIds(shortest) : \A l \in RunIds(shortest) :
                    BeforeDescending(r, l)
              /\ Len(longest) = (IF Len(job_runs_raw) < 3 THEN Len(job_runs_raw) ELSE 3)
              /\ Len(shortest) = Len(longest)

\* the timestamp stored under a key of a record, None when there is none
Known(record, key) == Get(record, key, None)

\* C26: whenever the start or submission timestamp of an application, job or
\* stage is known (any value, epoch 0 included) and its End/Completed event
\* carries a completion timestamp, the record afterwards has
\* duration_ms = completion - start; and once ApplicationStart and
\* ApplicationEnd have both been processed, in either order, ApplicationInfo
\* holds both timestamps and the derived duration.
DurationDerivedWheneverStartKnown ==
    [][LineRead =>
        LET info == parsed_data.application_info
            info2 == parsed_data'.application_info
            ev == line'.value
        IN  /\ (/\ IsEvent(line', "SparkListenerApplicationEnd")
                /\ "Timestamp" \in DOMAIN ev
                /\ Known(info, "start_time") # None)
                   => /\ Known(info2, "start_time") = info["start_time"]
                      /\ Known(info2, "end_time") = ev["Timestamp"]
                      /\ Known(info2, "duration_ms") = ev["Timestamp"] - info["start_time"]
            /\ (/\ IsEvent(line', "SparkListenerApplicationStart")
                /\ "Timestamp" \in DOMAIN ev
                /\ Known(info, "end_time") # None)
                   => /\ Known(info2, "start_time") = ev["Timestamp"]
                      /\ Known(info2, "end_time") = info["end_time"]
                      /\ Known(info2, "duration_ms") = info["end_time"] - ev["Timestamp"]
            /\ (/\ IsEvent(line', "SparkListenerJobEnd")
                /\ "Completion Time" \in DOMAIN ev
                /\ JobIdOf(line') \in DOMAIN parsed_data.jobs
                /\ Known(parsed_data.jobs[JobIdOf(line')], "submission_time") # None)
                   => Known(parsed_data'.jobs[JobIdOf(line')], "duration_ms")
                        = ev["Completion Time"]
                            - parsed_data.jobs[JobIdOf(line')].submission_time
            /\ (/\ IsEvent(line', "SparkListenerStageCompleted")
                /\ "Completion Time" \in DOMAIN StageInfoOf(line')
                /\ StageIdOf(line') \in DOMAIN parsed_data.stages
                /\ Known(parsed_data.stages[StageIdOf(line')], "submission_time") # None)
                   => Known(parsed_data'.stages[StageIdOf(line')], "duration_ms")
                        = StageInfoOf(line')["Completion Time"]
                            - parsed_data.stages[StageIdOf(line')].submission_time]_vars

\* the JobRecords that have a completion time
CompletedJobs ==
    {j \in DOMAIN parsed_data.jobs : Known(parsed_data.jobs[j], "completion_time") # None}

\* C27: in every reachable state successful_jobs + failed_jobs <= total_jobs,
\* and successful_jobs + failed_jobs is the number of JobRecords that have a
\* completion time, whatever the event sequence, repeated JobEnd or JobStart
\* events for one job id included.
FinishedJobsAreCountedOnce ==
    /\ metrics.successful_jobs + metrics.failed_jobs <= metrics.total_jobs
    /\ metrics.successful_jobs + metrics.failed_jobs = Cardinality(CompletedJobs)

\* C28: in every reachable state the number of JobRecords in the job map is
\* total_jobs and the number of StageRecords in the stage map is
\* total_stages; a second JobStart or StageSubmitted for an id already in
\* the map does not overwrite the completed record stored under that id.
RecordsMatchCountersAndAreKept ==
    [][/\ Cardinality(DOMAIN parsed_data'.jobs) = metrics'.total_jobs
       /\ Cardinality(DOMAIN parsed_data'.stages) = metrics'.total_stages
       /\ (/\ LineRead
           /\ IsEvent(line', "SparkListenerJobStart")
           /\ JobIdOf(line') \in CompletedJobs)
              => parsed_data'.jobs[JobIdOf(line')] = parsed_data.jobs[JobIdOf(line')]
       /\ (/\ LineRead
           /\ IsEvent(line', "SparkListenerStageSubmitted")
           /\ StageIdOf(line') \in DOMAIN parsed_data.stages
           /\ Known(parsed_data.stages[StageIdOf(line')], "completion_time") # None)
              => parsed_data'.stages[StageIdOf(line')]
                    = parsed_data.stages[StageIdOf(line')]]_vars

\* this step read a line whose handling raised: parse_log_file logged an
\* error for it
LineFailed == LineRead /\ log_records'.error = log_records.error + 1

\* C29: applying one event is all-or-nothing: when handling an event fails
\* partway (a JobEnd for a known job without a completion time, a
\* StageSubmitted whose task count is null, an ApplicationEnd without a
\* timestamp after a start), the line is skipped and application info, the
\* job map, the stage map and all counters are what they were before the
\* line.
FailedEventChangesNothing ==
    [][LineFailed => /\ pc' = "reading"
                     /\ parsed_data' = parsed_data]_vars

\* the key the histogram counts the i-th record under: its result_state,
\* "UNKNOWN" for a record that has none
HistogramKeyOf(i) ==
    IF "result_state" \in DOMAIN job_runs_raw[i]
    THEN job_runs_raw[i].result_state ELSE "UNKNOWN"

\* the counts of a histogram over the given keys, summed
RECURSIVE SumOfCounts(_, _)
SumOfCounts(counts, keys) ==
    IF keys = {} THEN 0
    ELSE LET k == CHOOSE x \in keys : TRUE
         IN  counts[k] + SumOfCounts(counts, keys \ {k})

\* C30: in a report the histogram and the recent-failures list classify
\* every record consistently: the histogram counts sum to
\* total_runs_analyzed, a record with no result_state is counted under
\* "UNKNOWN", and every record listed in recent_failures is one the
\* histogram counts under a key other than "SUCCESS" and "UNKNOWN", so a
\* record without a result_state is never listed as a recent failure.
HistogramAndFailuresAgree ==
    (Analyzed /\ ReportReturned)
    => LET counts == analysis.status_counts
           recent == analysis.notable_runs.recent_failures
       IN  /\ SumOfCounts(counts, DOMAIN counts) = analysis.total_runs_analyzed
           /\ \A state \in DOMAIN counts :
                 counts[state]
                    = Cardinality({i \in DOMAIN job_runs_raw : HistogramKeyOf(i) = state})
           /\ \A i \in DOMAIN job_runs_raw : HistogramKeyOf(i) \in DOMAIN counts
           /\ \A l \in RunIds(recent) :
                 /\ HistogramKeyOf(l) \notin {"SUCCESS", "UNKNOWN"}
                 /\ "result_state" \in DOMAIN job_runs_raw[l]

====
